---- MODULE Spec2Model ----
(***************************************************************************)
(* A model of the Layout plugin of Spyder                                  *)
(* (spyder/plugins/layout/plugin.py): maximizing and restoring panes, the  *)
(* fullscreen toggle, and saving, loading and applying window settings.    *)
(***************************************************************************)
EXTENDS Integers, Sequences, FiniteSets, TLC

(***************************************************************************)
(* Python values.  An optional value is a sequence: None is <<>>, a value  *)
(* v that is present is <<v>>.  A plugin reference that may be None is the *)
(* plugin's name or NoPlugin.                                              *)
(***************************************************************************)
None == <<>>

Some(v) == <<v>>

Truthy(flag) == flag = Some(TRUE)

NoPlugin == "None"

Unclear == <<TRUE, FALSE>>

\* Window state version passed to saveState/restoreState.
WINDOW_STATE_VERSION == 4

\* A state version written by an earlier release (Spyder 5.2).
OldStateVersion == 3

\* The dockable plugins a session can have: two internal ones and one that the
\* panes menu's order does not name.  saveState numbers the dock widgets in
\* this order.
PluginOrder == <<"editor", "help", "terminal">>

AllPlugins == {PluginOrder[i] : i \in 1..Len(PluginOrder)}

\* The elements of a list.
Range(seq) == {seq[i] : i \in 1..Len(seq)}

\* The dockable plugins registered in a session with the internal plugins
\* only, with the Editor or without it.
InternalPlugins(ea) == IF ea THEN <<"editor", "help">> ELSE <<"help">>

\* The layouts registered by on_initialize, and how many of them the model uses.
LayoutTypes ==
    <<"SpyderLayout", "RLayout", "MatlabLayout", "HorizontalSplitLayout",
      "VerticalSplitLayout">>

NumLayouts == 2

\* Number of default layouts available
DEFAULT_LAYOUTS == {LayoutTypes[i] : i \in 1..NumLayouts}

\* The places a dock arrangement can come from: moved by hand, or a layout.
ArrOrder == <<"user">> \o SubSeq(LayoutTypes, 1, NumLayouts)

IndexOf(seq, x) == CHOOSE i \in 1..Len(seq) : seq[i] = x

(***************************************************************************)
(* The toolkit's window state.  A dock arrangement is the set of visible   *)
(* dock widgets and the placement of the docks; saveState serialises it to *)
(* bytes (the version first), restoreState reads it back and refuses a     *)
(* blob of another version.                                                *)
(***************************************************************************)
RECURSIVE VisBits(_, _)
VisBits(vis, i) ==
    IF i > Len(PluginOrder) THEN 0
    ELSE (IF PluginOrder[i] \in vis THEN 1 ELSE 0) + 2 * VisBits(vis, i + 1)

RECURSIVE BitsVis(_, _)
BitsVis(bits, i) ==
    IF i > Len(PluginOrder) THEN {}
    ELSE (IF bits % 2 = 1 THEN {PluginOrder[i]} ELSE {}) \cup BitsVis(bits \div 2, i + 1)

saveState(d, version) == <<version, IndexOf(ArrOrder, d.arr), VisBits(d.vis, 1)>>

restoreState(qba, version, current) ==
    IF /\ Len(qba) = 3
       /\ qba[1] = version
       /\ qba[2] \in 1..Len(ArrOrder)
    THEN [ok |-> TRUE, dock |-> [vis |-> BitsVis(qba[3], 1), arr |-> ArrOrder[qba[2]]]]
    ELSE [ok |-> FALSE, dock |-> current]

HexDigits == <<"0", "1", "2", "3", "4", "5", "6", "7", "8", "9", "a", "b", "c", "d", "e", "f">>

HexValue(c) == (CHOOSE i \in 1..16 : HexDigits[i] = c) - 1

\* The bytes of a QByteArray as a hexadecimal string (a sequence of digits).
qbytearray_to_str(qba) ==
    [i \in 1..(2 * Len(qba)) |->
        IF i % 2 = 1 THEN HexDigits[(qba[(i + 1) \div 2] \div 16) + 1]
        ELSE HexDigits[(qba[i \div 2] % 16) + 1]]

\* QByteArray().fromHex(str(hexstate).encode('utf-8'))
fromHex(hex) ==
    [i \in 1..(Len(hex) \div 2) |-> 16 * HexValue(hex[2 * i - 1]) + HexValue(hex[2 * i])]

(***************************************************************************)
(* The state of the plugin, of the main window and of the configuration.   *)
(***************************************************************************)
VARIABLES
    editor_available,        \* get_plugin(Plugins.Editor, error=False) is not None
    first_spyder_run,        \* the cached property _first_spyder_run
    os_nt,                   \* os.name == 'nt'
    focus,                   \* the dockable plugin holding QApplication.focusWidget()
    last_plugin,             \* _last_plugin
    state_before_maximizing, \* _state_before_maximizing
    dock,                    \* the main window's dock arrangement
    central,                 \* the main window's central widget
    ismaximized,             \* the plugins whose maximized state is True
    toggle_disabled,         \* the plugins whose dockwidget.toggleViewAction() is disabled
    maximize_checked,        \* maximize_action.isChecked()
    view_checked,            \* the plugins whose toggle_view_action is checked
    outline_docked,          \* the outline explorer is docked with the maximized editor
    win,                     \* the main window: state, size, pos, frameless hint
    fullscreen_flag,         \* _fullscreen_flag
    maximized_flag,          \* _maximized_flag
    saved_normal_geometry,   \* _saved_normal_geometry
    window_size,             \* self.window_size
    window_position,         \* self.window_position
    applied_on_first_run,    \* _window_settings_applied_on_first_run
    conf,                    \* the configuration: key -> saved window settings
    dockable,                \* the list self.get_dockable_plugins() returns
    no_dockwidget,           \* the plugins whose dockwidget is None
    is_visible,              \* the plugins whose get_widget().is_visible is True
    last_visible_plugins,    \* the option 'last_visible_plugins'
    plugins_menu,            \* what add_action has put in the panes menu
    lastOp,                  \* the operation that led to this state, its outcome, and
                             \* the plugins that were maximized when it started
    maxcalls,                \* consecutive calls of maximize_dockwidget, and the docks before the first
    last_focused,            \* the dockable plugin that most recently held the focused widget
    entered_maximized,       \* while in fullscreen mode: was the window maximized when it entered
                             \* (Unclear when the window and the settings applied disagree)
    visible_at_save          \* the plugins that were visible when save_visible_plugins() last ran

progvars == <<editor_available, first_spyder_run, os_nt, focus, last_plugin,
              state_before_maximizing, dock, central, ismaximized, toggle_disabled,
              maximize_checked, view_checked, outline_docked, win, fullscreen_flag,
              maximized_flag, saved_normal_geometry, window_size, window_position,
              applied_on_first_run, conf, dockable, no_dockwidget, is_visible,
              last_visible_plugins, plugins_menu>>

vars == <<progvars, lastOp, maxcalls, last_focused, entered_maximized, visible_at_save>>

\* The program state as one record, with the outcome of the running operation:
\* raised (an exception left it), slot_raised (an exception was raised in a slot
\* and did not reach the caller), emitted (sig_layout_setup_ready's layout),
\* message (a critical message was shown).
Cur ==
    [editor_available |-> editor_available, first_spyder_run |-> first_spyder_run,
     os_nt |-> os_nt, focus |-> focus, last_plugin |-> last_plugin,
     state_before_maximizing |-> state_before_maximizing, dock |-> dock,
     central |-> central, ismaximized |-> ismaximized,
     toggle_disabled |-> toggle_disabled, maximize_checked |-> maximize_checked,
     view_checked |-> view_checked, outline_docked |-> outline_docked, win |-> win,
     fullscreen_flag |-> fullscreen_flag, maximized_flag |-> maximized_flag,
     saved_normal_geometry |-> saved_normal_geometry, window_size |-> window_size,
     window_position |-> window_position,
     applied_on_first_run |-> applied_on_first_run, conf |-> conf,
     dockable |-> dockable, no_dockwidget |-> no_dockwidget,
     is_visible |-> is_visible, last_visible_plugins |-> last_visible_plugins,
     plugins_menu |-> plugins_menu,
     raised |-> FALSE, slot_raised |-> FALSE, emitted |-> None, message |-> FALSE]

\* self.get_dockable_plugins()
get_dockable_plugins(s) == Range(s.dockable)

(***************************************************************************)
(* Maximize, close, switch to dockwidgets/plugins.                         *)
(***************************************************************************)

\* maximize_dockwidget, first call: select the plugin to maximize and maximize it.
\* plugin.change_visibility(enable): the plugin's is_visible becomes enable.
change_visibility(s, plugin, enable) ==
    [s EXCEPT !.is_visible = IF enable THEN @ \cup {plugin} ELSE @ \ {plugin}]

maximize_last_plugin(s) ==
    LET plugins == get_dockable_plugins(s)
        s1 == [s EXCEPT !.state_before_maximizing =
                            Some(saveState(s.dock, WINDOW_STATE_VERSION)),
                        !.dock.vis = @ \ plugins,
                        !.last_plugin = IF s.focus \in plugins THEN s.focus ELSE @]
        s2 == [s1 EXCEPT !.last_plugin = IF @ = NoPlugin THEN "editor" ELSE @]
        lp == s2.last_plugin
    IN  IF s1.last_plugin = NoPlugin /\ ~s.editor_available
        THEN s1
        ELSE [s2 EXCEPT !.toggle_disabled = @ \cup {lp},
                        !.central = lp,
                        !.ismaximized = @ \cup {lp},
                        !.is_visible = change_visibility(s, lp, TRUE).is_visible,
                        !.outline_docked = IF lp = "editor" THEN TRUE ELSE @]

\* A restore that forgets main.restoreState: the docks stay hidden.
restore_without_restoreState(s) ==
    LET lp == s.last_plugin
    IN  IF lp = NoPlugin THEN [s EXCEPT !.raised = TRUE]
        ELSE [s EXCEPT !.toggle_disabled = @ \ {lp},
                       !.central = NoPlugin,
                       !.ismaximized = @ \ {lp},
                       !.state_before_maximizing = None,
                       !.outline_docked = IF lp = "editor" THEN FALSE ELSE @,
                       !.focus = lp]

\* maximize_dockwidget, second call: restore the layout saved before maximizing.
\* With _last_plugin None the first statement raises AttributeError, in the try
\* and again in its except branch.
restore_original_layout(s) ==
    LET lp == s.last_plugin
    IN  IF lp = NoPlugin THEN [s EXCEPT !.raised = TRUE]
        ELSE [s EXCEPT !.toggle_disabled = @ \ {lp},
                       !.central = NoPlugin,
                       !.ismaximized = @ \ {lp},
                       !.dock = restoreState(s.state_before_maximizing[1],
                                             WINDOW_STATE_VERSION, @).dock,
                       !.state_before_maximizing = None,
                       !.outline_docked = IF lp = "editor" THEN FALSE ELSE @,
                       !.focus = lp]

maximize_dockwidget(s, restore) ==
    IF s.state_before_maximizing = None
    THEN IF restore THEN s ELSE maximize_last_plugin(s)
    ELSE restore_original_layout(s)

\* A slot has run: an exception it raised is reported, the caller goes on.
slot_returns(s) == [s EXCEPT !.raised = FALSE, !.slot_raised = @ \/ s.raised]

\* maximize_action.setChecked(value): the action's toggled signal calls
\* maximize_dockwidget().  An exception raised in the slot does not reach the
\* caller of setChecked.
set_maximize_checked(s, value) ==
    IF s.maximize_checked = value THEN s
    ELSE slot_returns(maximize_dockwidget([s EXCEPT !.maximize_checked = value], FALSE))

unmaximize_dockwidget(s) ==
    IF s.maximize_checked THEN set_maximize_checked(s, FALSE) ELSE s

unmaximize_other_dockwidget(s, plugin_instance) ==
    LET lp == s.last_plugin
        is_maximized == lp # NoPlugin /\ lp \in s.ismaximized
    IN  IF lp # NoPlugin /\ is_maximized /\ lp # plugin_instance
        THEN unmaximize_dockwidget(s)
        ELSE s

\* plugin.toggle_view_action.setChecked(value): the pane is shown or hidden.
set_view_checked(s, plugin, value) ==
    IF (plugin \in s.view_checked) = value THEN s
    ELSE [s EXCEPT !.view_checked = IF value THEN @ \cup {plugin} ELSE @ \ {plugin},
                   !.dock.vis = IF value THEN @ \cup {plugin} ELSE @ \ {plugin}]

\* A switch that only unchecks the action, as unmaximize_dockwidget does.
switch_unmaximize_if_checked(s, plugin) == unmaximize_other_dockwidget(s, plugin)

\* switch_to_plugin, first part: unmaximize the maximized plugin if it is another.
switch_unmaximize(s, plugin) ==
    LET lp == s.last_plugin
    IN  IF lp # NoPlugin /\ lp \in s.ismaximized /\ lp # plugin
        THEN IF s.maximize_checked THEN set_maximize_checked(s, FALSE)
             ELSE set_maximize_checked(s, TRUE)
        ELSE s

\* switch_to_plugin: the plugin's toggle view action is checked if it is not.
switch_show_plugin(s, plugin) ==
    IF plugin \notin s.view_checked
    THEN [set_view_checked(s, plugin, TRUE) EXCEPT !.is_visible = @ \ {plugin}]
    ELSE s

switch_to_plugin(s, plugin) ==
    change_visibility(switch_show_plugin(switch_unmaximize(s, plugin), plugin),
                      plugin, TRUE)

close_current_dockwidget(s) ==
    IF s.focus \in get_dockable_plugins(s)
    THEN set_view_checked(s, s.focus, FALSE)
    ELSE s

(***************************************************************************)
(* The panes menu and the visible plugins.                                 *)
(***************************************************************************)
\* An entry of the list `order` of create_plugins_menu: the name of a plugin,
\* the toggle view action of a plugin, or None (a separator of the menu).
Str(name) == [kind |-> "str", of |-> name]

Action(plugin) == [kind |-> "action", of |-> plugin]

Separator == [kind |-> "None", of |-> "None"]

order ==
    <<Str("editor"), Str("ipython_console"), Str("variable_explorer"),
      Str("debugger"), Str("help"), Str("plots"), Separator,
      Str("explorer"), Str("outline_explorer"), Str("project_explorer"),
      Str("find_in_files"), Separator,
      Str("historylog"), Str("profiler"), Str("pylint"), Separator,
      Str("onlinehelp"), Str("internal_console"), Separator>>

\* list.index(name): the first position of name, None for a ValueError.
index(list, name) ==
    IF \E i \in 1..Len(list) : list[i] = Str(name)
    THEN Some(CHOOSE i \in 1..Len(list) :
                  /\ list[i] = Str(name)
                  /\ \A j \in 1..(i - 1) : list[j] # Str(name))
    ELSE None

\* A loop body that appends every action, whatever the plugin's name.
append_action(s, actions, plugin) ==
    IF plugin \in s.no_dockwidget THEN actions
    ELSE Append(actions, Action(plugin))

\* create_plugins_menu, the body of the first loop on the list: a plugin
\* without dockwidget is skipped; the action of any other takes the place of
\* the plugin's name, or the end of the list if the name is not in it.
place_action(s, actions, plugin) ==
    IF plugin \in s.no_dockwidget THEN actions
    ELSE IF index(actions, plugin) # None
    THEN [actions EXCEPT ![index(actions, plugin)[1]] = Action(plugin)]
    ELSE Append(actions, Action(plugin))

RECURSIVE place_actions(_, _, _)
place_actions(s, actions, i) ==
    IF i > Len(s.dockable) THEN actions
    ELSE place_actions(s, place_action(s, actions, s.dockable[i]), i + 1)

\* create_plugins_menu, the body of the first loop on the actions:
\* action.setChecked(plugin.dockwidget.isVisible())
check_action(s, plugin) ==
    IF plugin \in s.no_dockwidget THEN s
    ELSE set_view_checked(s, plugin, plugin \in s.dock.vis)

RECURSIVE check_actions(_, _)
check_actions(s, i) ==
    IF i > Len(s.dockable) THEN s
    ELSE check_actions(check_action(s, s.dockable[i]), i + 1)

\* type(action) is not str
not_str(entry) == entry.kind # "str"

\* create_plugins_menu, the second loop: plugins_menu.add_action for every
\* entry that is not a name.
add_actions(s, actions) ==
    [s EXCEPT !.plugins_menu = @ \o SelectSeq(actions, not_str)]

create_plugins_menu(s) ==
    add_actions(check_actions(s, 1), place_actions(s, order, 1))

\* Plugins.IPythonConsole, Plugins.Help, Plugins.VariableExplorer, Plugins.Editor
DefaultVisiblePlugins == <<"ipython_console", "help", "variable_explorer", "editor">>

\* restore_visible_plugins: the stored list, or the default one if it is empty.
visible_plugins(s) ==
    IF s.last_visible_plugins = <<>> THEN DefaultVisiblePlugins
    ELSE s.last_visible_plugins

\* restore_visible_plugins, the first loop: change_visibility(False) for all.
RECURSIVE hide_plugins(_, _)
hide_plugins(s, i) ==
    IF i > Len(s.dockable) THEN s
    ELSE hide_plugins(change_visibility(s, s.dockable[i], FALSE), i + 1)

\* restore_visible_plugins, the body of the second loop; get_plugin finds the
\* plugins that are registered.
show_plugin(s, plugin) ==
    IF /\ plugin \in get_dockable_plugins(s)
       /\ plugin \notin s.no_dockwidget
       /\ plugin \in s.dock.vis
    THEN change_visibility(s, plugin, TRUE)
    ELSE s

RECURSIVE show_plugins(_, _, _)
show_plugins(s, list, i) ==
    IF i > Len(list) THEN s
    ELSE show_plugins(show_plugin(s, list[i]), list, i + 1)

restore_visible_plugins(s) ==
    show_plugins(hide_plugins(s, 1), visible_plugins(s), 1)

\* save_visible_plugins: the names of the plugins whose is_visible is True, in
\* the order of get_dockable_plugins().
RECURSIVE visible_names(_, _)
visible_names(s, i) ==
    IF i > Len(s.dockable) THEN <<>>
    ELSE (IF s.dockable[i] \in s.is_visible THEN <<s.dockable[i]>> ELSE <<>>)
         \o visible_names(s, i + 1)

save_visible_plugins(s) ==
    [s EXCEPT !.last_visible_plugins = visible_names(s, 1)]

(***************************************************************************)
(* The main window and the configuration.                                  *)
(***************************************************************************)
isMaximized(s) == s.win.state = "maximized"

isFullScreen(s) == s.win.state = "fullscreen"

\* main.setWindowState, showNormal, showMaximized, showFullScreen
setWindowState(s, state) == [s EXCEPT !.win.state = state]

\* main.screen().virtualGeometry() and main.screen().geometry()
Screen == [width |-> 2, height |-> 2]

WindowKey == <<"main", <<"window", "">>>>

\* section 'quick_layouts', prefix 'layout_{}/'.format(index_or_layout_id)
LayoutKey(index_or_layout_id) == <<"quick_layouts", <<"layout_", index_or_layout_id>>>>

\* The conf option 'order': the layouts' names, saved under their indexes.
OrderIndexes == <<"0", "1">>

ConfKeys ==
    {WindowKey} \cup {LayoutKey(x) : x \in DEFAULT_LAYOUTS \cup {"0", "1", "default"}}

\* A prefix no option of which is stored.
NoOptions ==
    [size |-> None, position |-> None, is_maximized |-> None, is_fullscreen |-> None,
     state |-> None, statusbar |-> None]

\* get_conf_default: the defaults of the window options.
get_conf_default(key) ==
    [size |-> <<9, 7>>, position |-> <<1, 1>>, is_maximized |-> TRUE, is_fullscreen |-> FALSE]

Settings(hexstate, size, pos, is_maximized, is_fullscreen) ==
    [hexstate |-> hexstate, window_size |-> size, pos |-> pos,
     is_maximized |-> is_maximized, is_fullscreen |-> is_fullscreen]

\* The position check of load_window_settings.
valid_position(s, key, pos) ==
    IF Screen.width < pos[1] \/ Screen.height < pos[2]
    THEN get_conf_default(key).position
    ELSE pos

\* load_window_settings(prefix, default, section): raised when get_conf raises
\* NoOptionError (an error reading the state is swallowed).
load_window_settings(s, key, default) ==
    LET c == s.conf[key]
        d == get_conf_default(key)
    IN  IF default
        THEN [raised |-> FALSE,
              settings |-> Settings(None, d.size, valid_position(s, key, d.position),
                                    d.is_maximized, d.is_fullscreen)]
        ELSE IF \/ c.size = None
                \/ c.position = None
                \/ c.is_maximized = None
                \/ c.is_fullscreen = None
             THEN [raised |-> TRUE, settings |-> Settings(None, d.size, d.position, FALSE, FALSE)]
             ELSE [raised |-> FALSE,
                   settings |-> Settings(IF c.state = None THEN None ELSE c.state[1],
                                         c.size[1],
                                         valid_position(s, key, c.position[1]),
                                         c.is_maximized[1], c.is_fullscreen[1])]

\* get_window_settings(): raised when window_size was never set.
get_window_settings(s) ==
    IF s.window_size = None \/ s.window_position = None
    THEN [raised |-> TRUE, settings |-> Settings(None, <<0, 0>>, <<0, 0>>, None, FALSE)]
    ELSE [raised |-> FALSE,
          settings |-> Settings(Some(qbytearray_to_str(saveState(s.dock, WINDOW_STATE_VERSION))),
                                s.window_size[1], s.window_position[1],
                                IF isFullScreen(s) THEN s.maximized_flag
                                ELSE Some(isMaximized(s)),
                                isFullScreen(s))]

\* layout.set_main_window_layout(main, dockable_plugins): the layout places and
\* shows the panes.
set_main_window_layout(s, layout_id) ==
    [s EXCEPT !.dock = [vis |-> get_dockable_plugins(s), arr |-> layout_id]]

\* save_current_window_settings, first part: the size, the flags and the
\* position of the window are stored.
save_window_geometry(s, key) ==
    LET pos == s.win.pos
    IN  [s EXCEPT !.conf[key].size = Some(s.win.size),
                  !.conf[key].is_maximized = Some(isMaximized(s)),
                  !.conf[key].is_fullscreen = Some(isFullScreen(s)),
                  !.conf[key].position =
                      Some(<<IF pos[1] > 0 THEN pos[1] ELSE 0,
                             IF pos[2] > 0 THEN pos[2] ELSE 0>>)]

\* save_current_window_settings, last part: the state and the status bar are
\* stored, unless the call before raised.
save_window_state(s, key, none_state) ==
    IF s.raised THEN s
    ELSE [s EXCEPT !.conf[key].state =
                       IF none_state THEN Some(None)
                       ELSE Some(Some(qbytearray_to_str(
                                saveState(s.dock, WINDOW_STATE_VERSION)))),
                   !.conf[key].statusbar = Some(TRUE)]

\* A save that writes the state before restoring the maximized pane.
save_before_restoring(s, key, none_state) ==
    maximize_dockwidget(save_window_state(save_window_geometry(s, key), key, none_state),
                        TRUE)

save_current_window_settings(s, key, none_state) ==
    save_window_state(maximize_dockwidget(save_window_geometry(s, key), TRUE),
                      key, none_state)

RECURSIVE save_layouts_in_order(_, _)
\* setup_layout: save_current_window_settings for every index of 'order'.
save_layouts_in_order(s, i) ==
    IF i > Len(OrderIndexes) \/ s.raised THEN s
    ELSE save_layouts_in_order(
             save_current_window_settings(s, LayoutKey(OrderIndexes[i]), TRUE), i + 1)

RECURSIVE set_window_settings(_, _)
RECURSIVE setup_default_layouts(_, _, _)
RECURSIVE setup_layout(_, _)

\* The flags that set_window_settings sets for the window state.
apply_window_state(s, st) ==
    LET s1 == IF st.is_fullscreen THEN setWindowState(s, "fullscreen") ELSE s
    IN  IF st.is_fullscreen THEN [s1 EXCEPT !.maximized_flag = Some(st.is_maximized)]
        ELSE IF st.is_maximized THEN setWindowState(s1, "maximized")
        ELSE s1

set_window_settings(s, st) ==
    IF s.applied_on_first_run /\ s.first_spyder_run THEN s
    ELSE LET s1 == [s EXCEPT !.window_size = Some(st.window_size),
                             !.window_position = Some(st.pos),
                             !.win.size = st.window_size,
                             !.win.pos = st.pos]
             restore == st.hexstate # None /\ st.hexstate # Some(<<>>)
             r == IF restore
                  THEN restoreState(fromHex(st.hexstate[1]), WINDOW_STATE_VERSION, s1.dock)
                  ELSE [ok |-> TRUE, dock |-> s1.dock]
         IN  IF ~r.ok THEN setup_layout(s1, TRUE)
             ELSE [apply_window_state([s1 EXCEPT !.dock = r.dock], st)
                      EXCEPT !.applied_on_first_run = TRUE]

\* setup_default_layouts: if not (main.isMaximized() or self._maximized_flag):
\* main.showMaximized()
show_maximized_unless_flagged(s) ==
    IF ~(isMaximized(s) \/ Truthy(s.maximized_flag))
    THEN setWindowState(s, "maximized")
    ELSE s

\* setup_default_layouts: a maximized last plugin is restored.
restore_last_plugin(s) ==
    IF s.last_plugin # NoPlugin /\ s.last_plugin \in s.ismaximized
    THEN maximize_dockwidget(s, TRUE)
    ELSE s

\* main.sig_layout_setup_ready.emit(layout)
emit_layout_setup_ready(s, layout_id) == [s EXCEPT !.emitted = Some(layout_id)]

setup_default_layouts(s, layout_id, settings) ==
    emit_layout_setup_ready(
        IF s.first_spyder_run
        THEN set_main_window_layout(set_window_settings(s, settings), layout_id)
        ELSE show_maximized_unless_flagged(
                 set_main_window_layout(
                     show_maximized_unless_flagged(restore_last_plugin(s)), layout_id)),
        layout_id)

\* setup_layout: the initial layout is stored as 'layout_default/', unless a
\* call before raised.
save_layout_default(s) ==
    IF s.raised THEN s
    ELSE save_current_window_settings(s, LayoutKey("default"), TRUE)

\* setup_layout, last statement: set_window_settings(*settings), unless a call
\* before raised.
apply_loaded_settings(s, settings) ==
    IF s.raised THEN s ELSE set_window_settings(s, settings)

setup_layout(s, default) ==
    LET ld == load_window_settings(s, WindowKey, default)
    IN  IF ld.raised THEN [s EXCEPT !.raised = TRUE]
        ELSE IF ld.settings.hexstate = None
        THEN apply_loaded_settings(
                 save_layout_default(
                     save_layouts_in_order(
                         setup_default_layouts(setWindowState(s, "maximized"),
                                               "SpyderLayout", ld.settings),
                         1)),
                 ld.settings)
        ELSE set_window_settings(s, ld.settings)

\* quick_layout_switch, last part: the flags of the panes' actions follow the
\* visibility of their dock widgets.
check_visible_panes(s) ==
    [s EXCEPT !.view_checked = s.dock.vis \cap get_dockable_plugins(s)]

\* quick_layout_switch after its first statement.
switch_layout(s, index_or_layout_id) ==
    LET ld == load_window_settings(s, LayoutKey(index_or_layout_id), FALSE)
    IN  IF ld.raised
        THEN IF index_or_layout_id \in DEFAULT_LAYOUTS
             THEN check_visible_panes(
                      emit_layout_setup_ready(
                          set_main_window_layout(s, index_or_layout_id),
                          index_or_layout_id))
             ELSE check_visible_panes([s EXCEPT !.message = TRUE])
        ELSE IF ld.settings.hexstate = None
        THEN IF index_or_layout_id \notin DEFAULT_LAYOUTS
             THEN [s EXCEPT !.message = TRUE]
             ELSE check_visible_panes(
                      setup_default_layouts(s, index_or_layout_id, ld.settings))
        ELSE check_visible_panes(set_window_settings(s, ld.settings))

quick_layout_switch(s, index_or_layout_id) ==
    switch_layout(unmaximize_dockwidget(s), index_or_layout_id)

(***************************************************************************)
(* Fullscreen.                                                             *)
(***************************************************************************)
normalGeometry(s) == [size |-> s.win.size, pos |-> s.win.pos]

setGeometry(s, g) == [s EXCEPT !.win.size = g.size, !.win.pos = g.pos]

\* toggle_fullscreen, leaving fullscreen
leave_fullscreen(s) ==
    LET a == [s EXCEPT !.fullscreen_flag = Some(FALSE)]
        b == IF s.os_nt
             THEN setGeometry([a EXCEPT !.win.frameless = ~@], a.saved_normal_geometry[1])
             ELSE a
        c == setWindowState(b, "normal")
    IN  IF Truthy(c.maximized_flag) THEN setWindowState(c, "maximized") ELSE c

\* toggle_fullscreen, entering fullscreen
enter_fullscreen(s) ==
    LET a == [s EXCEPT !.maximized_flag = Some(isMaximized(s)),
                       !.fullscreen_flag = Some(TRUE),
                       !.saved_normal_geometry = Some(normalGeometry(s))]
    IN  IF s.os_nt
        THEN setWindowState(
                 setGeometry([a EXCEPT !.win.frameless = TRUE],
                             [size |-> <<Screen.width + 2, Screen.height + 2>>,
                              pos |-> <<-1, -1>>]),
                 "normal")
        ELSE setWindowState(a, "fullscreen")

toggle_fullscreen(s) ==
    IF Truthy(s.fullscreen_flag) THEN leave_fullscreen(s) ELSE enter_fullscreen(s)

(***************************************************************************)
(* Operations.  Every action runs one operation on the current state and   *)
(* records which one it was.                                               *)
(***************************************************************************)
\* The window is in fullscreen mode (on Windows: frameless, covering the screen).
InFullscreenMode(s) == isFullScreen(s) \/ s.win.frameless

\* maximize_dockwidget() finds a plugin to maximize.
CanSelectPlugin(s) ==
    \/ s.focus \in get_dockable_plugins(s)
    \/ s.last_plugin # NoPlugin
    \/ s.editor_available

\* call is "plain" for maximize_dockwidget(), "restore" for
\* maximize_dockwidget(restore=True), "no" for any other operation.
Commit(result, op, arg, call) ==
    \E s \in {result} :
        /\ editor_available' = s.editor_available
        /\ first_spyder_run' = s.first_spyder_run
        /\ os_nt' = s.os_nt
        /\ focus' = s.focus
        /\ last_plugin' = s.last_plugin
        /\ state_before_maximizing' = s.state_before_maximizing
        /\ dock' = s.dock
        /\ central' = s.central
        /\ ismaximized' = s.ismaximized
        /\ toggle_disabled' = s.toggle_disabled
        /\ maximize_checked' = s.maximize_checked
        /\ view_checked' = s.view_checked
        /\ outline_docked' = s.outline_docked
        /\ win' = s.win
        /\ fullscreen_flag' = s.fullscreen_flag
        /\ maximized_flag' = s.maximized_flag
        /\ saved_normal_geometry' = s.saved_normal_geometry
        /\ window_size' = s.window_size
        /\ window_position' = s.window_position
        /\ applied_on_first_run' = s.applied_on_first_run
        /\ conf' = s.conf
        /\ dockable' = s.dockable
        /\ no_dockwidget' = s.no_dockwidget
        /\ is_visible' = s.is_visible
        /\ last_visible_plugins' = s.last_visible_plugins
        /\ plugins_menu' = s.plugins_menu
        /\ lastOp' = [op |-> op, arg |-> arg, raised |-> s.raised,
                      slot_raised |-> s.slot_raised, emitted |-> s.emitted,
                      message |-> s.message, was_maximized |-> ismaximized]
        /\ maxcalls' =
               IF call = "plain" /\ state_before_maximizing = None /\ CanSelectPlugin(Cur)
               THEN [n |-> 1, before |-> Some(dock)]
               ELSE IF call # "no" /\ maxcalls.n = 1
               THEN [n |-> 2, before |-> maxcalls.before]
               ELSE [n |-> 0, before |-> None]
        /\ last_focused' =
               IF s.focus \in get_dockable_plugins(s) THEN s.focus ELSE last_focused
        /\ entered_maximized' =
               IF ~InFullscreenMode(s) THEN None
               ELSE IF op = "toggle_fullscreen"
               THEN IF InFullscreenMode(Cur) THEN entered_maximized
                    ELSE Some(isMaximized(Cur))
               ELSE IF op = "set_window_settings"
                       /\ ~InFullscreenMode(Cur)
                       /\ arg[1].is_maximized = isMaximized(Cur)
               THEN Some(isMaximized(Cur))
               ELSE IF op = "set_window_settings" \/ ~InFullscreenMode(Cur)
               THEN Unclear
               ELSE entered_maximized
        /\ visible_at_save' =
               IF op = "save_visible_plugins" THEN Some(is_visible) ELSE visible_at_save

\* The focus moves to a widget of plugin p, or to a widget of no plugin.
FocusChanged ==
    \E p \in get_dockable_plugins(Cur) \cup {NoPlugin} :
        /\ p # focus
        /\ Commit([Cur EXCEPT !.focus = p], "user_event", <<>>, "no")

\* The user triggers the maximize action (Ctrl+Alt+Shift+M).
ToggleMaximizeAction ==
    \E s \in {Cur} :
        Commit(set_maximize_checked(s, ~s.maximize_checked), "toggle_maximize_action",
               <<>>, "plain")

\* maximize_dockwidget(restore=True) called directly, as its callers in this
\* file do; maximize_dockwidget() is called by the maximize action.
MaximizeDockwidgetRestore ==
    \E s \in {Cur} :
        Commit(maximize_dockwidget(s, TRUE), "maximize_dockwidget", <<TRUE>>, "restore")

UnmaximizeDockwidget ==
    \E s \in {Cur} :
        Commit(unmaximize_dockwidget(s), "unmaximize_dockwidget", <<>>, "no")

UnmaximizeOtherDockwidget ==
    \E p \in get_dockable_plugins(Cur) :
        Commit(unmaximize_other_dockwidget(Cur, p), "unmaximize_other_dockwidget",
               <<p>>, "no")

SwitchToPlugin ==
    \E p \in get_dockable_plugins(Cur) :
        Commit(switch_to_plugin(Cur, p), "switch_to_plugin", <<p>>, "no")

CloseCurrentDockwidget ==
    \E s \in {Cur} :
        Commit(close_current_dockwidget(s), "close_current_dockwidget", <<>>, "no")

\* The user shows or hides a pane from the panes menu.
ToggleViewAction ==
    \E p \in get_dockable_plugins(Cur) :
        Commit(set_view_checked(Cur, p, p \notin view_checked), "user_event",
               <<>>, "no")

\* The user drags a dock widget to another place.
UserMovesDock ==
    /\ dock.vis # {}
    /\ dock.arr # "user"
    /\ Commit([Cur EXCEPT !.dock.arr = "user"], "user_event", <<>>, "no")

SaveCurrentWindowSettings(keys, none_states) ==
    \E key \in keys, none_state \in none_states :
        Commit(save_current_window_settings(Cur, key, none_state),
               "save_current_window_settings", <<key, none_state>>, "no")

QuickLayoutSwitch(ids) ==
    \E id \in ids :
        Commit(quick_layout_switch(Cur, id), "quick_layout_switch", <<id>>, "no")

\* before_mainwindow_visible and on_mainwindow_visible call
\* setup_layout(default=False) at startup, before any other operation.
SetupLayout ==
    \E s \in {Cur} :
        /\ lastOp.op \in {"on_initialize", "setup_layout"}
        /\ Commit(setup_layout(s, FALSE), "setup_layout", <<FALSE>>, "no")

SetWindowSettings(hexstates, sizes, positions) ==
    \E h \in hexstates, sz \in sizes, pos \in positions, m \in BOOLEAN, f \in BOOLEAN :
        Commit(set_window_settings(Cur, Settings(h, sz, pos, m, f)),
               "set_window_settings", <<Settings(h, sz, pos, m, f)>>, "no")

ToggleFullscreen ==
    \E s \in {Cur} :
        Commit(toggle_fullscreen(s), "toggle_fullscreen", <<>>, "no")

\* The user maximizes the window or restores it from the title bar.
UserMaximizesWindow ==
    /\ ~InFullscreenMode(Cur)
    /\ Commit(setWindowState(Cur, IF isMaximized(Cur) THEN "normal" ELSE "maximized"),
              "user_event", <<>>, "no")

\* The user moves the window.
UserMovesWindow(positions) ==
    \E pos \in positions :
        /\ win.state = "normal"
        /\ ~win.frameless
        /\ pos # win.pos
        /\ Commit([Cur EXCEPT !.win.pos = pos], "user_event", <<>>, "no")

(***************************************************************************)
(* The state after on_initialize, in an environment: the plugins, the      *)
(* platform, the docks and the window as built, the stored configuration.  *)
(***************************************************************************)
InitialDock(ea) == [vis |-> Range(InternalPlugins(ea)), arr |-> "user"]

InitialWindow == [state |-> "normal", size |-> <<8, 6>>, pos |-> <<1, 1>>, frameless |-> FALSE]

\* The defaults of the 'window/' options answer get_conf until they are saved.
DefaultWindowOptions ==
    [NoOptions EXCEPT !.size = Some(get_conf_default(WindowKey).size),
                      !.position = Some(get_conf_default(WindowKey).position),
                      !.is_maximized = Some(get_conf_default(WindowKey).is_maximized),
                      !.is_fullscreen = Some(get_conf_default(WindowKey).is_fullscreen)]

\* The panes of a session: the registered dockable plugins, those without a
\* dockwidget, the visible dockwidgets, the checked toggle view actions, the
\* plugins whose is_visible is True, and the stored 'last_visible_plugins'.
InternalPanes(ea) ==
    [dockable |-> InternalPlugins(ea), no_dockwidget |-> {},
     vis |-> InitialDock(ea).vis, view_checked |-> InitialDock(ea).vis,
     is_visible |-> {}, last_visible_plugins |-> <<>>]

initialize(fr, nt, window_options, panes) ==
    /\ editor_available = ("editor" \in Range(panes.dockable))
    /\ first_spyder_run = fr
    /\ os_nt = nt
    /\ focus = NoPlugin
    /\ last_plugin = NoPlugin
    /\ state_before_maximizing = None
    /\ dock = [vis |-> panes.vis, arr |-> "user"]
    /\ central = NoPlugin
    /\ ismaximized = {}
    /\ toggle_disabled = {}
    /\ maximize_checked = FALSE
    /\ view_checked = panes.view_checked
    /\ outline_docked = FALSE
    /\ win = InitialWindow
    /\ fullscreen_flag = None
    /\ maximized_flag = None
    /\ saved_normal_geometry = None
    /\ window_size = None
    /\ window_position = None
    /\ applied_on_first_run = FALSE
    /\ conf = [k \in ConfKeys |-> IF k = WindowKey THEN window_options ELSE NoOptions]
    /\ lastOp = [op |-> "on_initialize", arg |-> <<>>, raised |-> FALSE,
                 slot_raised |-> FALSE, emitted |-> None, message |-> FALSE,
                 was_maximized |-> {}]
    /\ maxcalls = [n |-> 0, before |-> None]
    /\ last_focused = NoPlugin
    /\ entered_maximized = None
    /\ dockable = panes.dockable
    /\ no_dockwidget = panes.no_dockwidget
    /\ is_visible = panes.is_visible
    /\ last_visible_plugins = panes.last_visible_plugins
    /\ plugins_menu = <<>>
    /\ visible_at_save = None

on_initialize(ea, fr, nt, window_options) ==
    initialize(fr, nt, window_options, InternalPanes(ea))

(***************************************************************************)
(* Panes: maximizing, restoring and switching.                             *)
(***************************************************************************)
Init ==
    \E ea \in BOOLEAN : on_initialize(ea, FALSE, FALSE, DefaultWindowOptions)

\* setup_layout saves a layout with none_state=True.
SaveLayoutWithoutState ==
    \E s \in {Cur} : SaveCurrentWindowSettings({LayoutKey("0")}, {TRUE})

SwitchToDefaultLayout ==
    \E s \in {Cur} : QuickLayoutSwitch(DEFAULT_LAYOUTS)

Next ==
    \/ FocusChanged
    \/ ToggleMaximizeAction
    \/ MaximizeDockwidgetRestore
    \/ UnmaximizeDockwidget
    \/ UnmaximizeOtherDockwidget
    \/ SwitchToPlugin
    \/ CloseCurrentDockwidget
    \/ ToggleViewAction
    \/ UserMovesDock
    \/ SaveLayoutWithoutState
    \/ SwitchToDefaultLayout

Spec == Init /\ [][Next]_vars

(***************************************************************************)
(* Properties of maximizing, restoring and switching panes.                *)
(***************************************************************************)

\* C1: from a state where nothing is maximized (_state_before_maximizing is
\* None) and a plugin can be selected, maximize_dockwidget() followed by a
\* second maximize_dockwidget() or maximize_dockwidget(restore=True) brings the
\* dock arrangement back to the one captured before the first call, clears the
\* plugin's maximized state, removes the central widget and leaves
\* _state_before_maximizing None.
C1_MaximizeTwiceRestoresLayout ==
    maxcalls.n = 2 =>
        /\ dock = maxcalls.before[1]
        /\ last_plugin \notin ismaximized
        /\ ismaximized = {}
        /\ central = NoPlugin
        /\ state_before_maximizing = None

\* C1 happens: the second call has restored an arrangement with visible panes
\* that the first call had hidden.
C1_Witness ==
    /\ maxcalls.n = 2
    /\ lastOp.was_maximized # {}
    /\ dock.vis # {}
    /\ dock.arr # "user"

\* C2: after unmaximize_dockwidget() returns, no dockable plugin is maximized.
C2_NothingMaximizedAfterUnmaximize ==
    lastOp.op = "unmaximize_dockwidget" => ismaximized = {}

\* C3: after switch_to_plugin(plugin), no plugin other than plugin is maximized
\* and plugin's toggle view action is checked.
C3_SwitchUnmaximizesOthers ==
    lastOp.op = "switch_to_plugin" =>
        /\ \A q \in ismaximized : q = lastOp.arg[1]
        /\ lastOp.arg[1] \in view_checked

\* C3 happens: another plugin was maximized while the maximize action was
\* unchecked, and the switch has unmaximized it (the action is now checked).
C3_Witness ==
    /\ lastOp.op = "switch_to_plugin"
    /\ lastOp.was_maximized # {}
    /\ lastOp.arg[1] \notin lastOp.was_maximized
    /\ ismaximized = {}
    /\ maximize_checked

\* C4: unmaximize_other_dockwidget(plugin_instance) changes nothing when no
\* plugin is maximized or when the maximized plugin is plugin_instance; when
\* another plugin is maximized, that plugin is unmaximized.
C4_UnmaximizeOther ==
    [][lastOp'.op = "unmaximize_other_dockwidget" =>
          IF ismaximized = {} \/ lastOp'.arg[1] \in ismaximized
          THEN UNCHANGED progvars
          ELSE ismaximized \cap ismaximized' = {}]_vars

\* C5: get_last_plugin() is the dockable plugin that most recently held the
\* focused widget.
C5_LastPluginIsLastFocused ==
    last_focused # NoPlugin => last_plugin = last_focused

(***************************************************************************)
(* The window: applying window settings and toggling fullscreen.           *)
(***************************************************************************)
\* Window states as saveState writes them, and one written by an older release.
HexOf(d, version) == Some(qbytearray_to_str(saveState(d, version)))

InitialHexstate == HexOf(InitialDock(TRUE), WINDOW_STATE_VERSION)

OtherHexstate == HexOf([vis |-> {"editor"}, arr |-> "SpyderLayout"], WINDOW_STATE_VERSION)

OldHexstate == HexOf(InitialDock(TRUE), OldStateVersion)

\* The 'window/' options a previous session saved.
SavedWindowOptions(hexstate, is_maximized, is_fullscreen) ==
    [DefaultWindowOptions EXCEPT !.state = Some(hexstate),
                                 !.is_maximized = Some(is_maximized),
                                 !.is_fullscreen = Some(is_fullscreen),
                                 !.statusbar = Some(TRUE)]

InitWindow ==
    \E nt \in BOOLEAN :
        \/ on_initialize(TRUE, TRUE, nt, DefaultWindowOptions)
        \/ \E m \in BOOLEAN, f \in BOOLEAN :
               on_initialize(TRUE, FALSE, nt, SavedWindowOptions(InitialHexstate, m, f))

ApplyWindowSettings ==
    \E s \in {Cur} :
        SetWindowSettings({None, OtherHexstate, OldHexstate}, {<<9, 7>>}, {<<-1, 0>>, <<1, 1>>})

NextWindow ==
    \/ SetupLayout
    \/ ApplyWindowSettings
    \/ ToggleFullscreen
    \/ UserMaximizesWindow

SpecWindow == InitWindow /\ [][NextWindow]_vars

get_fullscreen_flag(s) == s.fullscreen_flag

\* C6: get_fullscreen_flag() is true exactly when the main window is in
\* fullscreen mode (None, its value after on_initialize, is read as false).
C6_FullscreenFlagTellsFullscreen ==
    Truthy(get_fullscreen_flag(Cur)) <=> InFullscreenMode(Cur)

InFS == InFullscreenMode(Cur)

\* C7: whenever the window leaves fullscreen through toggle_fullscreen, it is
\* shown maximized if and only if it was maximized when it entered fullscreen,
\* and the fullscreen flag is False afterwards (the cases left out are those
\* where the settings applied said otherwise than the window, marked Unclear).
C7_MaximizedRememberedAcrossFullscreen ==
    [][(lastOp'.op = "toggle_fullscreen" /\ InFS /\ ~InFS' /\ entered_maximized # Unclear) =>
          /\ (win'.state = "maximized") <=> (entered_maximized = Some(TRUE))
          /\ fullscreen_flag' = Some(FALSE)]_vars

\* restoreState accepts the hexstate (None and the empty string are not restored).
Restorable(hexstate) ==
    \/ hexstate = None
    \/ hexstate = Some(<<>>)
    \/ restoreState(fromHex(hexstate[1]), WINDOW_STATE_VERSION, dock).ok

\* C8: get_window_settings() called right after set_window_settings(hexstate,
\* window_size, pos, is_maximized, is_fullscreen) with a restorable hexstate
\* returns the same window_size, pos, is_maximized and is_fullscreen.
C8_GetAfterSetReturnsSettings ==
    (lastOp.op = "set_window_settings" /\ Restorable(lastOp.arg[1].hexstate)) =>
        LET st == lastOp.arg[1]
            got == get_window_settings(Cur)
        IN  /\ ~got.raised
            /\ got.settings.window_size = st.window_size
            /\ got.settings.pos = st.pos
            /\ got.settings.is_maximized = Some(st.is_maximized)
            /\ got.settings.is_fullscreen = st.is_fullscreen

(***************************************************************************)
(* Saving layouts and switching to them.                                   *)
(***************************************************************************)
\* A session with the Editor or without it, run for the first time or after
\* a session that saved the window options.
InitConf ==
    \E ea \in BOOLEAN :
        \/ on_initialize(ea, TRUE, FALSE, DefaultWindowOptions)
        \/ on_initialize(ea, FALSE, FALSE,
                         SavedWindowOptions(HexOf(InitialDock(ea), WINDOW_STATE_VERSION),
                                            FALSE, FALSE))

\* The user saves the current layout over the first default layout, or it is
\* reset to have no state.
SaveLayout ==
    \E s \in {Cur} : SaveCurrentWindowSettings({LayoutKey(LayoutTypes[1])}, BOOLEAN)

MoveWindow == \E s \in {Cur} : UserMovesWindow({<<-1, 0>>, <<3, 1>>})

NextConf ==
    \/ SetupLayout
    \/ ToggleMaximizeAction
    \/ UserMovesDock
    \/ MoveWindow
    \/ UserMaximizesWindow
    \/ SaveLayout
    \/ SwitchToDefaultLayout

SpecConf == InitConf /\ [][NextConf]_vars

\* The position that save_current_window_settings stores for a window at pos.
StoredPosition(pos) ==
    <<IF pos[1] > 0 THEN pos[1] ELSE 0, IF pos[2] > 0 THEN pos[2] ELSE 0>>

FitsScreen(pos) == ~(Screen.width < pos[1] \/ Screen.height < pos[2])

\* A step in which save_current_window_settings(prefix, section) with
\* none_state False returns.
SavedWithState ==
    /\ lastOp'.op = "save_current_window_settings"
    /\ ~lastOp'.arg[2]
    /\ ~lastOp'.raised

\* What load_window_settings(prefix, section=section) returns after the step
\* has, beside the hexstate, the values of the window before the step.
LoadedWindowValues(ld) ==
    /\ ~ld.raised
    /\ ld.settings.window_size = win.size
    /\ ld.settings.is_maximized = isMaximized(Cur)
    /\ ld.settings.is_fullscreen = isFullScreen(Cur)
    /\ FitsScreen(StoredPosition(win.pos)) => ld.settings.pos = StoredPosition(win.pos)

\* C9: after save_current_window_settings(prefix, section) with none_state
\* False, load_window_settings(prefix, section=section) returns the hexstate,
\* size, is_maximized and is_fullscreen values the main window had when the
\* save was called, and its position with negative coordinates replaced by 0
\* (provided it fits the screen).
C9_LoadReturnsWindowAsSaved ==
    [][SavedWithState =>
          LET ld == load_window_settings(Cur', lastOp'.arg[1], FALSE)
          IN  /\ LoadedWindowValues(ld)
              /\ ld.settings.hexstate =
                     Some(qbytearray_to_str(saveState(dock, WINDOW_STATE_VERSION)))]_vars

\* C9 (amended): as above, but the hexstate returned is that of the layout
\* without a maximized pane: the state captured before the pane was maximized
\* when there is one, the state of the window otherwise.
C9_LoadReturnsUnmaximizedLayout ==
    [][SavedWithState =>
          LET ld == load_window_settings(Cur', lastOp'.arg[1], FALSE)
          IN  /\ LoadedWindowValues(ld)
              /\ ld.settings.hexstate =
                     IF state_before_maximizing # None
                     THEN Some(qbytearray_to_str(state_before_maximizing[1]))
                     ELSE Some(qbytearray_to_str(saveState(dock, WINDOW_STATE_VERSION)))]_vars

\* A layout was saved with its state while a pane was maximized and the window
\* was at a negative position.
C9_Witness ==
    /\ lastOp.op = "save_current_window_settings"
    /\ ~lastOp.arg[2]
    /\ ~lastOp.raised
    /\ lastOp.was_maximized # {}
    /\ win.pos[1] < 0
    /\ conf[lastOp.arg[1]].position = Some(<<0, 0>>)

\* C10: quick_layout_switch(id) for a default layout id regenerates the layout
\* (set_main_window_layout on the dockable plugins, sig_layout_setup_ready
\* emitted) as long as no state is stored for it; once a state has been saved
\* for the id, the saved window settings are applied to the main window.
C10_DefaultLayoutRegeneratedUnlessSaved ==
    (lastOp.op = "quick_layout_switch" /\ lastOp.arg[1] \in DEFAULT_LAYOUTS) =>
        LET id == lastOp.arg[1]
            c == conf[LayoutKey(id)]
            no_state == c.size = None \/ c.state = None \/ c.state = Some(None)
        IN  /\ ~lastOp.raised
            /\ IF no_state
               THEN /\ dock = [vis |-> get_dockable_plugins(Cur), arr |-> id]
                    /\ lastOp.emitted = Some(id)
               ELSE /\ dock = restoreState(fromHex(c.state[1][1]),
                                           WINDOW_STATE_VERSION, dock).dock
                    /\ window_size = c.size
                    /\ window_position = Some(valid_position(Cur, LayoutKey(id), c.position[1]))

(***************************************************************************)
(* The panes menu and the visible plugins, over sessions.                  *)
(***************************************************************************)
\* The lists of length 2 or 3 of distinct plugins.
Registrations ==
    {list \in UNION {[1..n -> AllPlugins] : n \in 2..Len(PluginOrder)} :
         \A i, j \in 1..Len(list) : list[i] = list[j] => i = j}

\* What a session before this one may have stored.
StoredLists ==
    {<<>>, <<"help">>, <<"terminal", "editor">>, <<"editor", "help", "terminal">>}

\* A session starts: the plugins are registered in some order, some failed
\* their compatibility check and have no dockwidget, the other dockwidgets are
\* shown or hidden and the toggle view actions are checked or not.
InitPanes ==
    \E list \in Registrations, stored \in StoredLists, all_checked \in BOOLEAN :
        \E nodock \in SUBSET Range(list) :
            \E vis \in SUBSET (Range(list) \ nodock), shown \in BOOLEAN :
                initialize(FALSE, FALSE, DefaultWindowOptions,
                           [dockable |-> list, no_dockwidget |-> nodock, vis |-> vis,
                            view_checked |-> IF all_checked THEN Range(list) ELSE {},
                            is_visible |-> IF shown THEN vis ELSE {},
                            last_visible_plugins |-> stored])

\* create_plugins_menu(), the first call of on_mainwindow_visible.
CreatePluginsMenu ==
    \E s \in {Cur} :
        /\ lastOp.op = "on_initialize"
        /\ Commit(create_plugins_menu(s), "create_plugins_menu", <<>>, "no")

\* restore_visible_plugins(), which on_mainwindow_visible calls once the menu
\* is there.
RestoreVisiblePlugins ==
    \E s \in {Cur} :
        /\ lastOp.op = "create_plugins_menu"
        /\ Commit(restore_visible_plugins(s), "restore_visible_plugins", <<>>, "no")

\* The session has started.
Started == lastOp.op \notin {"on_initialize", "create_plugins_menu"}

\* A dockwidget's visibility changes (a tab is selected, a pane is closed):
\* its visibilityChanged signal calls the plugin's change_visibility.
VisibilityChanged ==
    \E s \in {Cur} :
        \E plugin \in get_dockable_plugins(s) \ s.no_dockwidget, enable \in BOOLEAN :
            /\ Started
            /\ (plugin \in s.is_visible) # enable
            /\ Commit(change_visibility(s, plugin, enable), "user_event", <<>>, "no")

\* The user toggles a pane in the panes menu.
TogglePane ==
    \E s \in {Cur} :
        \E plugin \in get_dockable_plugins(s) \ s.no_dockwidget :
            /\ Started
            /\ Commit(set_view_checked(s, plugin, plugin \notin s.view_checked),
                      "user_event", <<>>, "no")

\* The main window closes and calls save_visible_plugins().
SaveVisiblePlugins ==
    \E s \in {Cur} :
        /\ Started
        /\ lastOp.op # "save_visible_plugins"
        /\ Commit(save_visible_plugins(s), "save_visible_plugins", <<>>, "no")

\* The next session starts with the configuration the last one left: the
\* layout that is restored shows some of the dockwidgets.
NextSession ==
    \E s \in {Cur} :
        \E vis \in SUBSET (get_dockable_plugins(s) \ s.no_dockwidget) :
            /\ lastOp.op = "save_visible_plugins"
            /\ Commit([s EXCEPT !.dock.vis = vis, !.view_checked = {},
                                !.is_visible = {}, !.plugins_menu = <<>>],
                      "on_initialize", <<>>, "no")

NextPanes ==
    \/ CreatePluginsMenu
    \/ RestoreVisiblePlugins
    \/ VisibilityChanged
    \/ TogglePane
    \/ SaveVisiblePlugins
    \/ NextSession

SpecPanes == InitPanes /\ [][NextPanes]_vars

\* The positions of a plugin's toggle view action in the panes menu.
MenuPositions(plugin) ==
    {i \in 1..Len(plugins_menu) : plugins_menu[i] = Action(plugin)}

\* The plugin is named in the fixed order list.
Listed(plugin) == \E i \in 1..Len(order) : order[i] = Str(plugin)

\* p is named before q in the fixed order list.
ListedBefore(p, q) ==
    \E i, j \in 1..Len(order) : i < j /\ order[i] = Str(p) /\ order[j] = Str(q)

\* C11: after create_plugins_menu, the panes menu holds the toggle view action
\* of every dockable plugin that has a dockwidget exactly once, checked iff
\* the dockwidget is visible, and no action of a plugin without dockwidget;
\* the plugins named in the order list come in that list's order, and every
\* other plugin comes after all of them.
C11_MenuHoldsPanesInOrder ==
    lastOp.op = "create_plugins_menu" =>
        /\ \A p \in Range(dockable) \ no_dockwidget :
               /\ Cardinality(MenuPositions(p)) = 1
               /\ (p \in view_checked) = (p \in dock.vis)
        /\ \A p \in no_dockwidget : MenuPositions(p) = {}
        /\ \A p, q \in Range(dockable) \ no_dockwidget :
               \A i \in MenuPositions(p), j \in MenuPositions(q) :
                   /\ ListedBefore(p, q) => i < j
                   /\ Listed(p) /\ ~Listed(q) => i < j

\* A menu made for a plugin the order list does not name, registered first, a
\* listed plugin without dockwidget, and a listed plugin whose pane is hidden.
C11_Witness ==
    /\ lastOp.op = "create_plugins_menu"
    /\ dockable = <<"terminal", "help", "editor">>
    /\ no_dockwidget = {"help"}
    /\ dock.vis = {"terminal"}
    /\ view_checked = {"terminal"}
    /\ MenuPositions("editor") # {}

\* restore_visible_plugins() has made visible only plugins of the list it
\* used that have a visible dockwidget.
RestoredFromList ==
    \A p \in Range(dockable) :
        p \in is_visible =>
            /\ p \in Range(visible_plugins(Cur))
            /\ p \notin no_dockwidget
            /\ p \in dock.vis

\* C12: after restore_visible_plugins(), a dockable plugin is visible only if
\* its name is in the stored 'last_visible_plugins' list (in the default list
\* when the stored one is empty) and it has a visible dockwidget, every other
\* dockable plugin is not visible; and after save_visible_plugins() followed
\* by restore_visible_plugins(), no plugin that was not visible at save time
\* is visible.
C12_RestoreShowsOnlySavedPlugins ==
    lastOp.op = "restore_visible_plugins" =>
        /\ RestoredFromList
        /\ visible_at_save # None => is_visible \subseteq visible_at_save[1]

====
